---- MODULE Spec2Model ----
(***************************************************************************)
(* Model of github_org_cloner/cloner.py: clone_repository (the single-item *)
(* cloner) and clone_all_repositories (the batch orchestrator, sequential  *)
(* loop or ThreadPoolExecutor + as_completed).                             *)
(*                                                                         *)
(* A descriptor is identified by its name; its target path is              *)
(* base_dir/org_name/name, so the filesystem is the org directory plus one *)
(* leaf per name.  Each execution of clone_repository is split at the      *)
(* points where other threads can interleave: the exists()/dry_run test,   *)
(* the mkdir + start of subprocess.run, and the end of subprocess.run.     *)
(***************************************************************************)
EXTENDS Integers, Sequences, FiniteSets, TLC

\* ---------------------------------------------------------------- bounds
MaxRepos == 3
MaxWorkers == 2
MaxPages == 3
MaxPerPage == 2

\* ------------------------------------------------------------ value sets
NamePool == <<"repoA", "repoB", "repoC", "repoD", "repoE", "repoF">>

Names == {NamePool[i] : i \in 1..MaxRepos}

Stderrs == {"fatal: not found"}

Unbound == "<unbound>"

NoExit == 0 - 1

NoFuture == [kind |-> "none", name |-> "", success |-> FALSE, detail |-> << >>]

None == << >>

AlreadyExists == <<"Already exists">>

GitNotFoundMsg == <<"git command not found. Please ensure git is installed and in your PATH.">>

OSErrorMsg == <<"[Errno 13] Permission denied">>

FailedMsg(name, stderr) == <<"Failed to clone ", name, ": ", stderr>>

TimeoutMsg(name) == <<"Clone timeout for ", name, " (exceeded 5 minutes)">>

VARIABLES
    repos,        \* input list of descriptors (names)
    parallel,     \* input flag
    max_workers,  \* input: pool size
    dry_run,      \* input flag
    orgDir,       \* filesystem: base_dir/org_name exists
    leaf,         \* filesystem: kind of base_dir/org_name/<name>
    pc,           \* position of clone_all_repositories
    idx,          \* loop position (submission loop / sequential loop)
    queue,        \* executor work queue (task indices, FIFO)
    st,           \* per task: position of its clone_repository execution
    fut,          \* per task: what clone_repository returned or raised
    results,      \* the results dict
    repo_name,    \* local variable repo_name of clone_all_repositories
    completed,    \* local counter of the parallel branch
    raised,       \* exception that escaped clone_all_repositories
    tally,        \* <<successful, failed>> of the summary
    progress,     \* progress log entries
    fs0,          \* history: filesystem when the batch was called
    gitCalls,     \* history: number of subprocess.run calls per task
    toolRes,      \* history: what subprocess.run did per task
    existed,      \* history: what exists() answered per task
    history,      \* earlier batches of the same caller: their toolRes
    mainpc,       \* position of cli.main ("none": the batch is called directly)
    exitStatus,   \* status main exited with (NoExit: not exited)
    mainErr,      \* the error main handled before exiting
    run_setup,    \* config.run_setup, drawn when main reads it
    setupPaths,   \* arguments of the run_setup_for_all calls
    lpc,          \* position of list_org_repositories
    page,         \* local variable page
    repositories, \* local variable repositories
    requested,    \* history: the page numbers requested, in order
    responses,    \* history: the responses received, in order
    listErr,      \* exception list_org_repositories raised
    listReturn    \* <<value>> list_org_repositories returned, << >> before

vars == <<repos, parallel, max_workers, dry_run, orgDir, leaf, pc, idx, queue,
          st, fut, results, repo_name, completed, raised, tally, progress,
          fs0, gitCalls, toolRes, existed, history, mainpc, exitStatus,
          mainErr, run_setup, setupPaths, lpc, page, repositories, requested,
          responses, listErr, listReturn>>

\* the state of a call of GitHubClient.list_org_repositories
listVars == <<lpc, page, repositories, requested, responses, listErr, listReturn>>

\* the state of the caller, which no step of the batch itself changes
callerVars == <<history, mainpc, exitStatus, mainErr, run_setup, setupPaths,
                listVars>>

\* --------------------------------------------------------------- helpers
\* Input lists.  Names are only ever compared for equality, so a list of n
\* pairwise distinct names is taken to be the first n names of NamePool; the
\* lists with a repeated name are the prefixes of one or two names followed
\* by the first name once more.
Prefix(n) == [i \in 1..n |-> NamePool[i]]

RepoLists ==
    {Prefix(n) : n \in 0..MaxRepos}
        \cup {Append(Prefix(n), NamePool[1]) : n \in {k \in 1..2 : k < MaxRepos}}

Tasks == 1..Len(repos)

DistinctNames == \A i, j \in Tasks : repos[i] = repos[j] => i = j

Ret(name, success, detail) ==
    [kind |-> "ret", name |-> name, success |-> success, detail |-> detail]

Exc(type, msg) ==
    [kind |-> type, name |-> "", success |-> FALSE, detail |-> msg]

Put(d, k, v) == [x \in DOMAIN d \cup {k} |-> IF x = k THEN v ELSE d[x]]

Running == {i \in Tasks : st[i] \in {"running", "spawn", "git"}}

GitActive == {i \in Tasks : st[i] = "git"}

\* ------------------------------------------------------ clone_repository
TargetOf_FirstRepo(i) == repos[1]

\* line 39: target_path = base_dir / org_name / repo.name, the leaf the task
\* hands to git clone
TargetOf(i) == repos[i]

TargetExists_WrongPath(name) == FALSE

TargetExists_AnyLeaf(name) == \E n \in Names : leaf[n] # "absent"

\* line 42: target_path.exists()
TargetExists(name) == leaf[name] # "absent"

CheckOutcome_NoSkip(name) ==
    IF dry_run THEN Ret(name, TRUE, None) ELSE NoFuture

CheckOutcome_SkipWithoutReason(name) ==
    IF TargetExists(name) THEN Ret(name, FALSE, None)
    ELSE IF dry_run THEN Ret(name, TRUE, None)
    ELSE NoFuture

CheckOutcome_DryRunFirst(name) ==
    IF dry_run THEN Ret(name, TRUE, None)
    ELSE IF TargetExists(name) THEN Ret(name, FALSE, AlreadyExists)
    ELSE NoFuture

\* lines 42-48: the skip test comes first, then the dry-run test
CheckOutcome(name) ==
    IF TargetExists(name) THEN Ret(name, FALSE, AlreadyExists)
    ELSE IF dry_run THEN Ret(name, TRUE, None)
    ELSE NoFuture

Classify_TimeoutRaises(name, r, stderr) ==
    CASE r = "ok"       -> Ret(name, TRUE, None)
      [] r = "nonzero"  -> Ret(name, FALSE, FailedMsg(name, stderr))
      [] r = "timeout"  -> Exc("CloneError", TimeoutMsg(name))
      [] r = "notfound" -> Exc("CloneError", GitNotFoundMsg)
      [] OTHER          -> Exc("OSError", OSErrorMsg)

Classify_NonZeroRaises(name, r, stderr) ==
    CASE r = "ok"       -> Ret(name, TRUE, None)
      [] r = "nonzero"  -> Exc("CloneError", FailedMsg(name, stderr))
      [] r = "timeout"  -> Ret(name, FALSE, TimeoutMsg(name))
      [] r = "notfound" -> Exc("CloneError", GitNotFoundMsg)
      [] OTHER          -> Exc("OSError", OSErrorMsg)

Classify_TimeoutUncaught(name, r, stderr) ==
    CASE r = "ok"       -> Ret(name, TRUE, None)
      [] r = "nonzero"  -> Ret(name, FALSE, FailedMsg(name, stderr))
      [] r = "timeout"  -> Exc("TimeoutExpired", TimeoutMsg(name))
      [] r = "notfound" -> Exc("CloneError", GitNotFoundMsg)
      [] OTHER          -> Exc("OSError", OSErrorMsg)

\* lines 55-81: classification of what subprocess.run did
Classify(name, r, stderr) ==
    CASE r = "ok"       -> Ret(name, TRUE, None)
      [] r = "nonzero"  -> Ret(name, FALSE, FailedMsg(name, stderr))
      [] r = "timeout"  -> Ret(name, FALSE, TimeoutMsg(name))
      [] r = "notfound" -> Exc("CloneError", GitNotFoundMsg)
      [] OTHER          -> Exc("OSError", OSErrorMsg)

CheckExists_MkdirFirst(i) ==
    /\ st[i] = "running"
    /\ orgDir' = TRUE
    /\ LET o == CheckOutcome(repos[i])
       IN  /\ existed' = [existed EXCEPT ![i] = IF TargetExists(repos[i]) THEN "yes" ELSE "no"]
           /\ IF o = NoFuture
              THEN /\ st' = [st EXCEPT ![i] = "spawn"]
                   /\ fut' = fut
              ELSE /\ st' = [st EXCEPT ![i] = "done"]
                   /\ fut' = [fut EXCEPT ![i] = o]
    /\ UNCHANGED <<repos, parallel, max_workers, dry_run, leaf, pc, idx,
                   queue, results, repo_name, completed, raised, tally, progress,
                   fs0, gitCalls, toolRes, callerVars>>

\* lines 41-48: the exists() test and the dry_run test
CheckExists(i) ==
    /\ st[i] = "running"
    /\ LET o == CheckOutcome(repos[i])
       IN  /\ existed' = [existed EXCEPT ![i] = IF TargetExists(repos[i]) THEN "yes" ELSE "no"]
           /\ IF o = NoFuture
              THEN /\ st' = [st EXCEPT ![i] = "spawn"]
                   /\ fut' = fut
              ELSE /\ st' = [st EXCEPT ![i] = "done"]
                   /\ fut' = [fut EXCEPT ![i] = o]
    /\ UNCHANGED <<repos, parallel, max_workers, dry_run, orgDir, leaf, pc, idx,
                   queue, results, repo_name, completed, raised, tally, progress,
                   fs0, gitCalls, toolRes, callerVars>>

Spawn_RetryOnFailure(i) ==
    /\ st[i] = "spawn"
    /\ orgDir' = TRUE
    /\ gitCalls' = [gitCalls EXCEPT ![i] = @ + 1]
    /\ \E r \in {"started", "notfound", "oserror"} :
          IF r = "started"
          THEN /\ st' = [st EXCEPT ![i] = "git"]
               /\ UNCHANGED <<fut, toolRes>>
          ELSE /\ st' = IF gitCalls[i] = 0 THEN st ELSE [st EXCEPT ![i] = "done"]
               /\ fut' = [fut EXCEPT ![i] = Classify(repos[i], r, "")]
               /\ toolRes' = [toolRes EXCEPT ![i] = r]
    /\ UNCHANGED <<repos, parallel, max_workers, dry_run, leaf, pc, idx, queue,
                   results, repo_name, completed, raised, tally, progress, fs0,
                   existed, callerVars>>

\* lines 51-63: mkdir(parents, exist_ok) of the parent, then subprocess.run
\* either starts the child or fails to start it
Spawn(i) ==
    /\ st[i] = "spawn"
    /\ orgDir' = TRUE
    /\ gitCalls' = [gitCalls EXCEPT ![i] = @ + 1]
    /\ \E r \in {"started", "notfound", "oserror"} :
          IF r = "started"
          THEN /\ st' = [st EXCEPT ![i] = "git"]
               /\ UNCHANGED <<fut, toolRes>>
          ELSE /\ st' = [st EXCEPT ![i] = "done"]
               /\ fut' = [fut EXCEPT ![i] = Classify(repos[i], r, "")]
               /\ toolRes' = [toolRes EXCEPT ![i] = r]
    /\ UNCHANGED <<repos, parallel, max_workers, dry_run, leaf, pc, idx, queue,
                   results, repo_name, completed, raised, tally, progress, fs0,
                   existed, callerVars>>

GitFinish_WritesResult(i) ==
    /\ st[i] = "git"
    /\ \E r \in {"ok", "nonzero", "timeout"}, e \in Stderrs, left \in BOOLEAN :
          /\ r = "ok" => leaf[TargetOf(i)] = "absent"
          /\ r # "timeout" => ~left
          /\ leaf' = IF leaf[TargetOf(i)] = "absent" /\ (r = "ok" \/ left)
                     THEN [leaf EXCEPT ![TargetOf(i)] = "dir"]
                     ELSE leaf
          /\ fut' = [fut EXCEPT ![i] = Classify(repos[i], r, e)]
          /\ toolRes' = [toolRes EXCEPT ![i] = r]
          /\ results' = Put(results, repos[i],
                            <<Classify(repos[i], r, e).success,
                              Classify(repos[i], r, e).detail>>)
    /\ st' = [st EXCEPT ![i] = "done"]
    /\ UNCHANGED <<repos, parallel, max_workers, dry_run, orgDir, pc, idx, queue,
                   repo_name, completed, raised, tally, progress, fs0,
                   gitCalls, existed, callerVars>>

\* the child ends: exit 0 (target created), exit non-zero (git removes what
\* it created), or killed at the 300 s timeout (target possibly left behind)
GitFinish(i) ==
    /\ st[i] = "git"
    /\ \E r \in {"ok", "nonzero", "timeout"}, e \in Stderrs, left \in BOOLEAN :
          /\ r = "ok" => leaf[TargetOf(i)] = "absent"
          /\ r # "timeout" => ~left
          /\ leaf' = IF leaf[TargetOf(i)] = "absent" /\ (r = "ok" \/ left)
                     THEN [leaf EXCEPT ![TargetOf(i)] = "dir"]
                     ELSE leaf
          /\ fut' = [fut EXCEPT ![i] = Classify(repos[i], r, e)]
          /\ toolRes' = [toolRes EXCEPT ![i] = r]
    /\ st' = [st EXCEPT ![i] = "done"]
    /\ UNCHANGED <<repos, parallel, max_workers, dry_run, orgDir, pc, idx, queue,
                   results, repo_name, completed, raised, tally, progress, fs0,
                   gitCalls, existed, callerVars>>

\* ------------------------------------------------ clone_all_repositories
EnsureOrgDir_Always == TRUE

EnsureOrgDir_Never == orgDir

\* lines 115-117: org_dir.mkdir(parents=True, exist_ok=True) unless dry_run
EnsureOrgDir == orgDir \/ ~dry_run

BeginOrgDir_MkdirFirst == EnsureOrgDir

\* lines 108-117: the empty list returns before the org directory is made
BeginOrgDir == IF repos = << >> THEN orgDir ELSE EnsureOrgDir

\* lines 108-120
Begin ==
    /\ pc = "start"
    /\ pc' = IF repos = << >> THEN "returned"
             ELSE IF parallel THEN "submit" ELSE "seq"
    /\ orgDir' = BeginOrgDir
    /\ UNCHANGED <<repos, parallel, max_workers, dry_run, leaf, idx, queue, st,
                   fut, results, repo_name, completed, raised, tally, progress,
                   fs0, gitCalls, toolRes, existed, callerVars>>

\* lines 128-137: executor.submit for each repo, in input order
Submit ==
    /\ pc = "submit"
    /\ queue' = Append(queue, idx)
    /\ st' = [st EXCEPT ![idx] = "queued"]
    /\ IF idx = Len(repos)
       THEN pc' = "collect" /\ idx' = idx
       ELSE pc' = pc /\ idx' = idx + 1
    /\ UNCHANGED <<repos, parallel, max_workers, dry_run, orgDir, leaf, fut,
                   results, repo_name, completed, raised, tally, progress, fs0,
                   gitCalls, toolRes, existed, callerVars>>

PoolHasIdleWorker_Unbounded == TRUE

PoolHasIdleWorker_Serial == Cardinality(Running) < 1

\* line 126: ThreadPoolExecutor(max_workers): a queued task starts when one
\* of the max_workers threads is idle
PoolHasIdleWorker == Cardinality(Running) < max_workers

WorkerStart ==
    /\ queue # << >>
    /\ PoolHasIdleWorker
    /\ st' = [st EXCEPT ![Head(queue)] = "running"]
    /\ queue' = Tail(queue)
    /\ UNCHANGED <<repos, parallel, max_workers, dry_run, orgDir, leaf, pc, idx,
                   fut, results, repo_name, completed, raised, tally, progress,
                   fs0, gitCalls, toolRes, existed, callerVars>>

ParExceptKey_LastSubmitted(i) == repos[Len(repos)]

\* line 150: the key used by the except branch of the parallel loop
ParExceptKey(i) == repos[i]

\* lines 141-151: one iteration of the as_completed loop
Collect(i) ==
    /\ pc = "collect"
    /\ st[i] = "done"
    /\ st' = [st EXCEPT ![i] = "collected"]
    /\ completed' = completed + 1
    /\ IF fut[i].kind = "ret"
       THEN /\ results' = Put(results, fut[i].name, <<fut[i].success, fut[i].detail>>)
            /\ progress' = Append(progress, <<completed + 1, Len(repos)>>)
       ELSE /\ results' = Put(results, ParExceptKey(i), <<FALSE, fut[i].detail>>)
            /\ progress' = progress
    /\ UNCHANGED <<repos, parallel, max_workers, dry_run, orgDir, leaf, pc, idx,
                   queue, fut, repo_name, raised, tally, fs0, gitCalls, toolRes,
                   existed, callerVars>>

SeqCall_AnyPending ==
    /\ pc = "seq"
    /\ \E i \in Tasks :
          /\ st[i] = "pending"
          /\ st' = [st EXCEPT ![i] = "running"]
          /\ progress' = Append(progress, <<i, Len(repos)>>)
    /\ UNCHANGED <<repos, parallel, max_workers, dry_run, orgDir, leaf, pc, idx,
                   queue, fut, results, repo_name, completed, raised, tally, fs0,
                   gitCalls, toolRes, existed, callerVars>>

\* lines 156-164: the sequential loop logs i/total and calls clone_repository
SeqCall ==
    /\ pc = "seq"
    /\ st[idx] = "pending"
    /\ st' = [st EXCEPT ![idx] = "running"]
    /\ progress' = Append(progress, <<idx, Len(repos)>>)
    /\ UNCHANGED <<repos, parallel, max_workers, dry_run, orgDir, leaf, pc, idx,
                   queue, fut, results, repo_name, completed, raised, tally, fs0,
                   gitCalls, toolRes, existed, callerVars>>

SeqExceptKey_Placeholder(i) == "unknown"

\* line 168: the key used by the except branch of the sequential loop
SeqExceptKey(i) == repo_name

\* lines 159-168: the call returned or raised
SeqRecord ==
    /\ pc = "seq"
    /\ st[idx] = "done"
    /\ st' = [st EXCEPT ![idx] = "collected"]
    /\ IF fut[idx].kind = "ret"
       THEN /\ repo_name' = fut[idx].name
            /\ results' = Put(results, fut[idx].name, <<fut[idx].success, fut[idx].detail>>)
            /\ raised' = raised
            /\ pc' = IF idx = Len(repos) THEN "summary" ELSE pc
       ELSE IF SeqExceptKey(idx) = Unbound
            THEN /\ raised' = "UnboundLocalError"
                 /\ pc' = "raised"
                 /\ UNCHANGED <<repo_name, results>>
            ELSE /\ results' = Put(results, SeqExceptKey(idx), <<FALSE, fut[idx].detail>>)
                 /\ pc' = IF idx = Len(repos) THEN "summary" ELSE pc
                 /\ UNCHANGED <<repo_name, raised>>
    /\ idx' = IF idx < Len(repos) /\ pc' = "seq" THEN idx + 1 ELSE idx
    /\ UNCHANGED <<repos, parallel, max_workers, dry_run, orgDir, leaf, queue,
                   fut, completed, tally, progress, fs0, gitCalls, toolRes,
                   existed, callerVars>>

ParDone_NoWait ==
    /\ pc = "collect"
    /\ pc' = "summary"
    /\ UNCHANGED <<repos, parallel, max_workers, dry_run, orgDir, leaf, idx,
                   queue, st, fut, results, repo_name, completed, raised, tally,
                   progress, fs0, gitCalls, toolRes, existed, callerVars>>

\* the as_completed loop is exhausted and the executor is shut down
ParDone ==
    /\ pc = "collect"
    /\ \A i \in Tasks : st[i] = "collected"
    /\ pc' = "summary"
    /\ UNCHANGED <<repos, parallel, max_workers, dry_run, orgDir, leaf, idx,
                   queue, st, fut, results, repo_name, completed, raised, tally,
                   progress, fs0, gitCalls, toolRes, existed, callerVars>>

\* lines 171-176
Successful == Cardinality({n \in DOMAIN results : results[n][1]})

Summary ==
    /\ pc = "summary"
    /\ tally' = <<Successful, Cardinality(DOMAIN results) - Successful>>
    /\ pc' = "returned"
    /\ UNCHANGED <<repos, parallel, max_workers, dry_run, orgDir, leaf, idx,
                   queue, st, fut, results, repo_name, completed, raised,
                   progress, fs0, gitCalls, toolRes, existed, callerVars>>

\* -------------------------------------------------------------- a re-run
\* The caller runs the batch once more on the same descriptors, base
\* directory and organization; only the filesystem is carried over.  Re-runs
\* are taken from the returns at which every target is present.
Rerun ==
    /\ pc = "returned"
    /\ mainpc = "none"
    /\ history = << >>
    /\ repos # << >>
    /\ \A i \in Tasks : leaf[repos[i]] # "absent"
    /\ history' = <<toolRes>>
    /\ parallel' \in BOOLEAN
    /\ pc' = "start"
    /\ idx' = 1
    /\ queue' = << >>
    /\ st' = [i \in Tasks |-> "pending"]
    /\ fut' = [i \in Tasks |-> NoFuture]
    /\ results' = << >>
    /\ repo_name' = Unbound
    /\ completed' = 0
    /\ raised' = "none"
    /\ tally' = << >>
    /\ progress' = << >>
    /\ fs0' = <<orgDir, leaf>>
    /\ gitCalls' = [i \in Tasks |-> 0]
    /\ toolRes' = [i \in Tasks |-> "none"]
    /\ existed' = [i \in Tasks |-> "unknown"]
    /\ UNCHANGED <<repos, max_workers, dry_run, orgDir, leaf, mainpc,
                   exitStatus, mainErr, run_setup, setupPaths, listVars>>

\* ------------------------------------------------------------- cli.main
batchVars == <<parallel, max_workers, dry_run, orgDir, leaf, idx, queue, st,
               fut, results, repo_name, completed, raised, tally, progress,
               fs0, gitCalls, toolRes, existed>>

\* sys.exit(code)
ExitWith(code, err) ==
    /\ mainpc' = "exited"
    /\ exitStatus' = code
    /\ mainErr' = err

\* cli.py lines 185-196: Config.from_args raises ValueError without base dir
MainConfig ==
    /\ mainpc = "config"
    /\ \E ok \in BOOLEAN :
          IF ok THEN mainpc' = "parse" /\ UNCHANGED <<exitStatus, mainErr>>
          ELSE ExitWith(1, "ValueError: base directory")
    /\ UNCHANGED <<repos, pc, batchVars, history, run_setup, setupPaths, listVars>>

\* cli.py lines 207-213: parse_org_name raises ValueError on a bad URL
MainParseOrg ==
    /\ mainpc = "parse"
    /\ \E ok \in BOOLEAN :
          IF ok THEN mainpc' = "fetch" /\ UNCHANGED <<exitStatus, mainErr>>
          ELSE ExitWith(1, "ValueError: organization URL")
    /\ UNCHANGED <<repos, pc, batchVars, history, run_setup, setupPaths, listVars>>

ListingErrors == {"OrganizationNotFoundError", "RateLimitError", "GitHubAPIError"}

MainFetch_ErrorIgnored ==
    /\ mainpc = "fetch"
    /\ \E r \in {"ok"} \cup ListingErrors :
          /\ mainpc' = "listed"
          /\ mainErr' = IF r = "ok" THEN mainErr ELSE r
          /\ exitStatus' = exitStatus
    /\ UNCHANGED <<repos, pc, batchVars, history, run_setup, setupPaths, listVars>>

\* cli.py lines 215-227: list_org_repositories returns repos or raises
MainFetch ==
    /\ mainpc = "fetch"
    /\ \E r \in {"ok"} \cup ListingErrors :
          IF r = "ok" THEN mainpc' = "listed" /\ UNCHANGED <<exitStatus, mainErr>>
          ELSE ExitWith(1, r)
    /\ UNCHANGED <<repos, pc, batchVars, history, run_setup, setupPaths, listVars>>

NoReposFound_Never == FALSE

\* cli.py line 229: if not repos
NoReposFound == repos = << >>

\* cli.py lines 229-241: exit 0 on an empty listing, else call
\* clone_all_repositories
MainCheckEmpty ==
    /\ mainpc = "listed"
    /\ IF NoReposFound
       THEN ExitWith(0, "none") /\ pc' = pc
       ELSE /\ mainpc' = "cloning"
            /\ pc' = "start"
            /\ UNCHANGED <<exitStatus, mainErr>>
    /\ UNCHANGED <<repos, batchVars, history, run_setup, setupPaths, listVars>>

\* cli.py lines 243-245: except Exception around clone_all_repositories
MainCloneRaised ==
    /\ mainpc = "cloning"
    /\ pc = "raised"
    /\ ExitWith(1, raised)
    /\ UNCHANGED <<repos, pc, batchVars, history, run_setup, setupPaths, listVars>>

SuccessfulRepos_AllKeys == DOMAIN results

\* cli.py lines 250-254: names whose outcome is a success
SuccessfulRepos == {n \in DOMAIN results : results[n][1]}

\* cli.py lines 247-257: the setup step
MainSetup ==
    /\ mainpc = "cloning"
    /\ pc = "returned"
    /\ \E rs \in BOOLEAN :
          /\ run_setup' = rs
          /\ setupPaths' = IF rs /\ ~dry_run /\ SuccessfulRepos # {}
                            THEN Append(setupPaths, SuccessfulRepos)
                            ELSE setupPaths
    /\ mainpc' = "check"
    /\ UNCHANGED <<repos, pc, batchVars, history, exitStatus, mainErr, listVars>>

FailedRepos_ToolErrorsIgnored ==
    {n \in DOMAIN results : ~results[n][1] /\ results[n][2] # GitNotFoundMsg}

FailedRepos_SkipsIgnored ==
    {n \in DOMAIN results : ~results[n][1] /\ results[n][2] # AlreadyExists}

\* cli.py line 260: names whose outcome is not a success
FailedRepos == {n \in DOMAIN results : ~results[n][1]}

\* cli.py lines 259-266: exit 1 if anything failed, else fall off the end
MainExit ==
    /\ mainpc = "check"
    /\ IF FailedRepos # {}
       THEN ExitWith(1, "none")
       ELSE ExitWith(0, "none")
    /\ UNCHANGED <<repos, pc, batchVars, history, run_setup, setupPaths, listVars>>

\* ------------------------------------- GitHubClient.list_org_repositories
\* github_client.py.  A response is a network failure (requests raised) or
\* an HTTP response: its status code, whether its text mentions "rate limit"
\* (case-insensitively), whether its body parses as JSON, the number of
\* repositories in the parsed body and whether its Link header holds
\* rel="next".
Statuses == {200, 403, 404, 500}

NetworkFailure ==
    [kind |-> "network", status |-> 0, rateLimitText |-> FALSE, json |-> FALSE,
     n |-> 0, next |-> FALSE]

Responses ==
    {NetworkFailure} \cup
    {r \in [kind : {"http"}, status : Statuses, rateLimitText : BOOLEAN,
            json : BOOLEAN, n : 0..MaxPerPage, next : BOOLEAN] :
        ~r.json => r.n = 0}

\* the k-th repository of the body of page p
PageItems(p, r) == [k \in 1..r.n |-> <<p, k>>]

ResponseError_403AlwaysRateLimit(r) ==
    IF r.kind = "network" THEN "GitHubAPIError"
    ELSE IF r.status = 404 THEN "OrganizationNotFoundError"
    ELSE IF r.status = 403 THEN "RateLimitError"
    ELSE IF r.status # 200 THEN "GitHubAPIError"
    ELSE IF ~r.json THEN "GitHubAPIError"
    ELSE "none"

\* lines 135-169: the exception one iteration raises, "none" if it goes on
ResponseError(r) ==
    IF r.kind = "network" THEN "GitHubAPIError"
    ELSE IF r.status = 404 THEN "OrganizationNotFoundError"
    ELSE IF r.status = 403
         THEN IF r.rateLimitText THEN "RateLimitError" ELSE "GitHubAPIError"
    ELSE IF r.status # 200 THEN "GitHubAPIError"
    ELSE IF ~r.json THEN "GitHubAPIError"
    ELSE "none"

HasNextLink_Always(r) == TRUE

\* lines 188-189: 'rel="next"' in the Link header
HasNextLink(r) == r.next

ListNotCalled ==
    /\ lpc = "idle"
    /\ page = 1
    /\ repositories = << >>
    /\ requested = << >>
    /\ responses = << >>
    /\ listErr = "none"
    /\ listReturn = << >>

\* lines 124-125
ListCall ==
    /\ lpc = "idle"
    /\ lpc' = "loop"
    /\ repositories' = << >>
    /\ page' = 1
    /\ UNCHANGED <<requested, responses, listErr, listReturn>>
    /\ UNCHANGED <<repos, pc, batchVars, history, mainpc, exitStatus, mainErr,
                   run_setup, setupPaths>>

FetchPage_SamePage ==
    /\ lpc = "loop"
    /\ Len(requested) < MaxPages
    /\ \E r \in Responses :
          /\ requested' = Append(requested, page)
          /\ responses' = Append(responses, r)
          /\ IF ResponseError(r) # "none"
             THEN /\ lpc' = "raised"
                  /\ listErr' = ResponseError(r)
                  /\ UNCHANGED <<page, repositories, listReturn>>
             ELSE IF r.n = 0
             THEN /\ lpc' = "returned"
                  /\ listReturn' = <<repositories>>
                  /\ UNCHANGED <<page, repositories, listErr>>
             ELSE /\ repositories' = repositories \o PageItems(page, r)
                  /\ listErr' = listErr
                  /\ page' = page
                  /\ IF HasNextLink(r)
                     THEN /\ lpc' = lpc
                          /\ listReturn' = listReturn
                     ELSE /\ lpc' = "returned"
                          /\ listReturn' = <<repositories'>>
    /\ UNCHANGED <<repos, pc, batchVars, history, mainpc, exitStatus, mainErr,
                   run_setup, setupPaths>>

\* lines 127-192: one iteration of the while loop, the request included
FetchPage ==
    /\ lpc = "loop"
    /\ page <= MaxPages
    /\ \E r \in Responses :
          /\ requested' = Append(requested, page)
          /\ responses' = Append(responses, r)
          /\ IF ResponseError(r) # "none"
             THEN /\ lpc' = "raised"
                  /\ listErr' = ResponseError(r)
                  /\ UNCHANGED <<page, repositories, listReturn>>
             ELSE IF r.n = 0
             THEN /\ lpc' = "returned"
                  /\ listReturn' = <<repositories>>
                  /\ UNCHANGED <<page, repositories, listErr>>
             ELSE /\ repositories' = repositories \o PageItems(page, r)
                  /\ listErr' = listErr
                  /\ IF HasNextLink(r)
                     THEN /\ page' = page + 1
                          /\ lpc' = lpc
                          /\ listReturn' = listReturn
                     ELSE /\ page' = page
                          /\ lpc' = "returned"
                          /\ listReturn' = <<repositories'>>
    /\ UNCHANGED <<repos, pc, batchVars, history, mainpc, exitStatus, mainErr,
                   run_setup, setupPaths>>

\* ------------------------------------------------------------------ spec
Init ==
    /\ repos \in RepoLists
    /\ parallel \in BOOLEAN
    /\ max_workers \in 1..MaxWorkers
    /\ dry_run \in BOOLEAN
    /\ orgDir \in BOOLEAN
    /\ leaf \in [Names -> {"absent", "file", "dir"}]
    /\ (\E n \in Names : leaf[n] # "absent") => orgDir
    /\ \A n \in Names : leaf[n] # "absent" => \E i \in Tasks : repos[i] = n
    /\ pc = "start"
    /\ idx = 1
    /\ queue = << >>
    /\ st = [i \in Tasks |-> "pending"]
    /\ fut = [i \in Tasks |-> NoFuture]
    /\ results = << >>
    /\ repo_name = Unbound
    /\ completed = 0
    /\ raised = "none"
    /\ tally = << >>
    /\ progress = << >>
    /\ fs0 = <<orgDir, leaf>>
    /\ gitCalls = [i \in Tasks |-> 0]
    /\ toolRes = [i \in Tasks |-> "none"]
    /\ existed = [i \in Tasks |-> "unknown"]
    /\ history = << >>
    /\ mainpc = "none"
    /\ exitStatus = NoExit
    /\ mainErr = "none"
    /\ run_setup = FALSE
    /\ setupPaths = << >>
    /\ ListNotCalled

Next ==
    \/ Begin
    \/ Submit
    \/ WorkerStart
    \/ \E i \in Tasks : CheckExists(i)
    \/ \E i \in Tasks : Spawn(i)
    \/ \E i \in Tasks : GitFinish(i)
    \/ \E i \in Tasks : Collect(i)
    \/ SeqCall
    \/ SeqRecord
    \/ ParDone
    \/ Summary
    \/ Rerun

Spec == Init /\ [][Next]_vars

\* main() as the caller: the listing yields repos, the configuration yields
\* the flags
InitMain ==
    /\ repos \in RepoLists
    /\ parallel \in BOOLEAN
    /\ max_workers \in 1..MaxWorkers
    /\ dry_run \in BOOLEAN
    /\ orgDir \in BOOLEAN
    /\ leaf \in [Names -> {"absent", "file", "dir"}]
    /\ (\E n \in Names : leaf[n] # "absent") => orgDir
    /\ \A n \in Names : leaf[n] # "absent" => \E i \in Tasks : repos[i] = n
    /\ pc = "notcalled"
    /\ idx = 1
    /\ queue = << >>
    /\ st = [i \in Tasks |-> "pending"]
    /\ fut = [i \in Tasks |-> NoFuture]
    /\ results = << >>
    /\ repo_name = Unbound
    /\ completed = 0
    /\ raised = "none"
    /\ tally = << >>
    /\ progress = << >>
    /\ fs0 = <<orgDir, leaf>>
    /\ gitCalls = [i \in Tasks |-> 0]
    /\ toolRes = [i \in Tasks |-> "none"]
    /\ existed = [i \in Tasks |-> "unknown"]
    /\ history = << >>
    /\ mainpc = "config"
    /\ exitStatus = NoExit
    /\ mainErr = "none"
    /\ run_setup = FALSE
    /\ setupPaths = << >>
    /\ ListNotCalled

NextMain ==
    \/ MainConfig
    \/ MainParseOrg
    \/ MainFetch
    \/ MainCheckEmpty
    \/ Begin
    \/ Submit
    \/ WorkerStart
    \/ \E i \in Tasks : CheckExists(i)
    \/ \E i \in Tasks : Spawn(i)
    \/ \E i \in Tasks : GitFinish(i)
    \/ \E i \in Tasks : Collect(i)
    \/ SeqCall
    \/ SeqRecord
    \/ ParDone
    \/ Summary
    \/ MainCloneRaised
    \/ MainSetup
    \/ MainExit

SpecMain == InitMain /\ [][NextMain]_vars

\* list_org_repositories called on its own: no batch, no main
InitList ==
    /\ repos = << >>
    /\ parallel = FALSE
    /\ max_workers = 1
    /\ dry_run = FALSE
    /\ orgDir = FALSE
    /\ leaf = [n \in Names |-> "absent"]
    /\ pc = "notcalled"
    /\ idx = 1
    /\ queue = << >>
    /\ st = << >>
    /\ fut = << >>
    /\ results = << >>
    /\ repo_name = Unbound
    /\ completed = 0
    /\ raised = "none"
    /\ tally = << >>
    /\ progress = << >>
    /\ fs0 = <<orgDir, leaf>>
    /\ gitCalls = << >>
    /\ toolRes = << >>
    /\ existed = << >>
    /\ history = << >>
    /\ mainpc = "none"
    /\ exitStatus = NoExit
    /\ mainErr = "none"
    /\ run_setup = FALSE
    /\ setupPaths = << >>
    /\ ListNotCalled

NextList ==
    \/ ListCall
    \/ FetchPage

SpecList == InitList /\ [][NextList]_vars

\* ---------------------------------------------------------------- claims
InputNames == {repos[i] : i \in Tasks}

Finished(i) == st[i] \in {"done", "collected"}

OutcomeOf(i) ==
    IF fut[i].kind = "ret" THEN <<fut[i].success, fut[i].detail>>
    ELSE <<FALSE, fut[i].detail>>

Min(a, b) == IF a < b THEN a ELSE b

\* C1: whenever clone_all_repositories returns on a list of pairwise distinct
\* names, the key set of the returned mapping equals the set of input names,
\* in both modes and whatever each item's outcome was.
C1_KeysEqualInputs ==
    (pc = "returned" /\ DistinctNames) => DOMAIN results = InputNames

\* C2: if the clone tool is missing for any item (clone_repository raised
\* CloneError), the batch does not return a mapping normally: the CloneError
\* escapes clone_all_repositories.
C2_FatalPropagates ==
    \A i \in Tasks :
        (st[i] = "collected" /\ fut[i].kind = "CloneError")
            => (pc = "raised" /\ raised = "CloneError")

C4_ParallelIsolatesException ==
    (parallel /\ DistinctNames) =>
        /\ pc # "raised"
        /\ \A i \in Tasks :
              st[i] = "collected" =>
                  (repos[i] \in DOMAIN results /\ results[repos[i]] = OutcomeOf(i))
        /\ pc = "returned" => \A i \in Tasks : st[i] = "collected"

C4_Witness ==
    /\ parallel /\ DistinctNames /\ pc = "returned"
    /\ \E i, j \in Tasks :
          /\ i < j
          /\ fut[i].kind = "OSError" /\ results[repos[i]] = <<FALSE, OSErrorMsg>>
          /\ fut[j].kind = "ret" /\ fut[j].success /\ results[repos[j]] = <<TRUE, None>>

\* C5: in sequential mode (distinct names), when clone_repository raises an
\* unexpected exception for the descriptor at position i, a failed outcome
\* with the exception's message is recorded under that descriptor's own name
\* and the loop goes on (nothing escapes clone_all_repositories).
C5_SequentialRecordsOwnName ==
    (~parallel /\ DistinctNames) =>
        \A i \in Tasks :
            (st[i] = "collected" /\ fut[i].kind = "OSError")
                => /\ pc # "raised"
                   /\ repos[i] \in DOMAIN results
                   /\ results[repos[i]] = <<FALSE, fut[i].detail>>

\* C6: once an outcome is recorded under a name (distinct input names), no
\* later step of the batch changes or removes that entry.
C6_OutcomesFinal ==
    [][DistinctNames =>
          \A n \in DOMAIN results :
              n \in DOMAIN results' /\ results'[n] = results[n]]_vars

\* C7: in parallel mode with max_workers = N, at most N executions of
\* clone_repository (hence at most N clone-tool subprocesses) are active in
\* any reachable state.
C7_ConcurrencyBound ==
    parallel =>
        /\ Cardinality(Running) <= max_workers
        /\ Cardinality(GitActive) <= max_workers

C7_Witness ==
    /\ parallel
    /\ Cardinality(GitActive) = max_workers
    /\ queue # << >>

\* C8: parallel mode is genuinely parallel: whenever a task is queued and
\* fewer than max_workers executions are active, the task can start at once,
\* whether or not other clones are still running; so min(N, number of
\* descriptors) invocations become active together.
C8_ActualParallelism ==
    (queue # << >> /\ Cardinality(Running) < max_workers) => ENABLED WorkerStart

C8_Witness ==
    /\ parallel /\ max_workers >= 2 /\ Len(repos) >= 2
    /\ Cardinality(GitActive) = Min(max_workers, Len(repos))

\* C9: when the target path already exists (file or directory) at the time
\* clone_repository tests it, the execution ends in that step with
\* (name, false, "Already exists"), subprocess.run is not called and the
\* filesystem is left as it was.
C9_SkipExisting ==
    [][\A i \in Tasks :
          (st[i] = "running" /\ st'[i] # "running" /\ TargetExists(repos[i]))
              => /\ st'[i] = "done"
                 /\ fut'[i] = Ret(repos[i], FALSE, AlreadyExists)
                 /\ gitCalls'[i] = 0
                 /\ <<orgDir', leaf'>> = <<orgDir, leaf>>]_vars

C9_Witness ==
    \E i, j \in Tasks :
        /\ existed[i] = "yes" /\ leaf[repos[i]] = "file"
        /\ existed[j] = "yes" /\ leaf[repos[j]] = "dir"
        /\ fut[i].detail = AlreadyExists /\ fut[j].detail = AlreadyExists
        /\ gitCalls[i] = 0 /\ gitCalls[j] = 0

\* C10: with dry_run the filesystem always equals the filesystem before the
\* call (no org directory, no leaf is created), subprocess.run is never
\* called, every descriptor whose target did not exist gets (true, none), and
\* nothing escapes the batch; in both modes.
C10_DryRunLaw ==
    dry_run =>
        /\ <<orgDir, leaf>> = fs0
        /\ pc # "raised"
        /\ \A i \in Tasks :
              /\ gitCalls[i] = 0
              /\ st[i] # "git"
              /\ (Finished(i) /\ existed[i] = "no") => fut[i] = Ret(repos[i], TRUE, None)
        /\ pc = "returned" =>
              \A i \in Tasks :
                  ~TargetExists(repos[i]) =>
                      (repos[i] \in DOMAIN results /\ results[repos[i]] = <<TRUE, None>>)

C10_Witness ==
    /\ dry_run /\ pc = "returned" /\ ~orgDir
    /\ Len(repos) >= 2
    /\ \A i \in Tasks : results[repos[i]] = <<TRUE, None>>

Recorded(i) == st[i] = "done" /\ st'[i] = "collected"

C13_EmptyListReturnsEmpty ==
    repos = << >> =>
        /\ pc \in {"start", "returned"}
        /\ results = << >>
        /\ <<orgDir, leaf>> = fs0
        /\ queue = << >>
        /\ raised = "none"

C13_Witness ==
    /\ repos = << >> /\ pc = "returned" /\ results = << >>
    /\ ~dry_run /\ parallel /\ ~orgDir

FirstBatchAllCloned ==
    history # << >> /\ \A i \in Tasks : history[1][i] = "ok"

\* C14: after a first non-dry-run batch in which every clone succeeded, a
\* second batch on the same descriptors, base directory and organization (in
\* either mode) never calls the clone tool, leaves the filesystem as it is
\* and returns (false, "Already exists") for every descriptor.
C14_SecondBatchAllSkipped ==
    FirstBatchAllCloned =>
        /\ pc # "raised"
        /\ <<orgDir, leaf>> = fs0
        /\ \A i \in Tasks :
              /\ gitCalls[i] = 0
              /\ st[i] \notin {"spawn", "git"}
              /\ Finished(i) => fut[i] = Ret(repos[i], FALSE, AlreadyExists)
        /\ pc = "returned" =>
              /\ DOMAIN results = InputNames
              /\ \A n \in InputNames : results[n] = <<FALSE, AlreadyExists>>

C14_Witness ==
    /\ FirstBatchAllCloned /\ pc = "returned" /\ Len(repos) >= 2
    /\ \A i \in Tasks : results[repos[i]] = <<FALSE, AlreadyExists>> /\ gitCalls[i] = 0

RaisedAt(k) == fut[k].kind \notin {"ret", "none"}

\* what descriptor j's own inputs (pre-existence of its own target, dry_run,
\* what the tool did for it) make clone_repository return
OwnOutcomes(j) ==
    IF fs0[2][repos[j]] # "absent" THEN {<<FALSE, AlreadyExists>>}
    ELSE IF dry_run THEN {<<TRUE, None>>}
    ELSE IF toolRes[j] = "ok" THEN {<<TRUE, None>>}
    ELSE IF toolRes[j] = "nonzero"
         THEN {<<FALSE, FailedMsg(repos[j], e)>> : e \in Stderrs}
    ELSE IF toolRes[j] = "timeout" THEN {<<FALSE, TimeoutMsg(repos[j])>>}
    ELSE {}

\* the exceptions raised right after position j in the sequential loop are
\* stored under j's name; the last of them stays
ExpectedEntries(j) ==
    IF ~parallel /\ j < Len(repos) /\ RaisedAt(j + 1)
    THEN LET k == CHOOSE k \in (j + 1)..Len(repos) :
                      /\ \A x \in (j + 1)..k : RaisedAt(x)
                      /\ (k = Len(repos) \/ ~RaisedAt(k + 1))
         IN  {<<FALSE, fut[k].detail>>}
    ELSE OwnOutcomes(j)

C17_OrgDirBeforeDispatch ==
    [][(~dry_run /\ repos # << >>) =>
          /\ pc' # "start" => orgDir'
          /\ (\E i \in Tasks : st'[i] # "pending") => orgDir'
          /\ (pc = "start" /\ orgDir) =>
                (<<orgDir', leaf'>> = <<orgDir, leaf>> /\ pc' \in {"submit", "seq"})]_vars

C17_Witness ==
    /\ ~dry_run /\ ~fs0[1] /\ orgDir
    /\ pc \in {"submit", "seq"}
    /\ \A i \in Tasks : st[i] = "pending"
    /\ repos # << >>

\* C18: in sequential mode the descriptors are processed in input order and
\* one at a time: at most one execution of clone_repository (hence at most
\* one clone tool) is active, every descriptor before the one in progress
\* has had its outcome recorded, and none after it has started.
C18_SequentialInOrder ==
    ~parallel =>
        /\ Cardinality(Running) <= 1
        /\ Cardinality(GitActive) <= 1
        /\ \A i, j \in Tasks :
              (i < j /\ st[j] # "pending") =>
                  /\ st[i] = "collected"
                  /\ fut[i].kind = "ret" => fut[i].name \in DOMAIN results
        /\ \A k \in 1..Len(progress) : progress[k] = <<k, Len(repos)>>

C18_Witness ==
    /\ ~parallel /\ Len(repos) >= 3
    /\ st[1] = "collected" /\ st[2] = "git" /\ st[3] = "pending"
    /\ repos[1] \in DOMAIN results

\* C19: whenever main ends after a batch whose returned mapping holds at
\* least one non-success outcome (a failure or an "Already exists" skip), it
\* exits with status 1; it ends with status 0 only when every outcome of the
\* mapping is a success.
C19_ExitNonZeroOnFailure ==
    (mainpc = "exited" /\ pc = "returned") =>
        /\ (\E n \in DOMAIN results : ~results[n][1]) => exitStatus = 1
        /\ exitStatus = 0 => \A n \in DOMAIN results : results[n] = <<TRUE, None>>
        /\ exitStatus \in {0, 1}

C19_Witness ==
    /\ mainpc = "exited" /\ pc = "returned" /\ exitStatus = 1
    /\ \E n, k \in DOMAIN results :
          results[n] = <<FALSE, AlreadyExists>> /\ results[k] = <<TRUE, None>>
    /\ \A n \in DOMAIN results : results[n][1] \/ results[n][2] = AlreadyExists

\* C20: when the listing returns an empty list, main exits with status 0 at
\* the emptiness test and clone_all_repositories is never called: no
\* directory is created and the setup step does not run.
C20_EmptyListingExitsZero ==
    [][repos = << >> =>
          /\ pc' = "notcalled"
          /\ <<orgDir', leaf'>> = fs0
          /\ setupPaths' = << >>
          /\ mainpc = "listed" => (mainpc' = "exited" /\ exitStatus' = 0)]_vars

C20_Witness ==
    /\ repos = << >> /\ mainpc = "exited" /\ exitStatus = 0 /\ mainErr = "none"
    /\ pc = "notcalled" /\ <<orgDir, leaf>> = fs0

\* C21: when the listing fails (organization not found, rate limited, any
\* other API error) or the configuration is invalid (no base directory), main
\* exits with status 1 without having started the cloning or the setup step;
\* the batch is only ever called after a listing has succeeded.
C21_ListingFailureExitsOne ==
    /\ mainErr \in ListingErrors \cup {"ValueError: base directory"} =>
          /\ mainpc = "exited" /\ exitStatus = 1
          /\ pc = "notcalled"
          /\ \A i \in Tasks : gitCalls[i] = 0 /\ st[i] = "pending"
          /\ <<orgDir, leaf>> = fs0
          /\ setupPaths = << >>
    /\ pc # "notcalled" =>
          /\ mainpc \in {"cloning", "check", "exited"}
          /\ mainErr \notin ListingErrors \cup {"ValueError: base directory"}
    /\ mainpc \in {"config", "parse", "fetch", "listed"} => pc = "notcalled"

C21_Witness ==
    /\ mainpc = "exited" /\ exitStatus = 1 /\ mainErr = "RateLimitError"
    /\ repos # << >> /\ pc = "notcalled" /\ setupPaths = << >>

\* C22: run_setup_for_all is called only when run_setup is set, dry_run is
\* not set and at least one recorded outcome is a success, at most once, and
\* its argument is exactly the set of targets whose recorded outcome is a
\* success; with distinct names each of them is the target of a descriptor
\* whose own clone succeeded, never of one that failed or was skipped.
C22_SetupOnlyForSuccesses ==
    /\ Len(setupPaths) <= 1
    /\ setupPaths # << >> =>
          /\ run_setup /\ ~dry_run /\ pc = "returned"
          /\ setupPaths[1] # {}
          /\ setupPaths[1] = {n \in DOMAIN results : results[n][1]}
          /\ DistinctNames =>
                \A i \in Tasks :
                    repos[i] \in setupPaths[1] => OutcomeOf(i) = <<TRUE, None>>

C22_Witness ==
    /\ Len(setupPaths) = 1 /\ mainpc = "exited"
    /\ \E n, k \in DOMAIN results :
          /\ results[n] = <<FALSE, AlreadyExists>> /\ n \notin setupPaths[1]
          /\ results[k] = <<TRUE, None>> /\ k \in setupPaths[1]
    /\ \E i \in Tasks : toolRes[i] = "nonzero" /\ repos[i] \notin setupPaths[1]

\* C23: the tally computed at the end of a batch (distinct names) satisfies
\* successful + failed = number of input descriptors, where successful is
\* the number of descriptors whose clone or dry-run succeeded and failed
\* counts every other descriptor, skips included.
C23_TallyCoversInputs ==
    (pc = "returned" /\ tally # << >> /\ DistinctNames) =>
        /\ tally[1] + tally[2] = Len(repos)
        /\ tally[1] = Cardinality({i \in Tasks : OutcomeOf(i)[1]})

\* C24: every outcome of the mapping has its detail unset when success is
\* true and set (to an error message or the skip reason) when success is
\* false: no success carries a detail and no failure lacks one.
C24_DetailIffFailure ==
    \A n \in DOMAIN results :
        /\ results[n][1] <=> results[n][2] = None
        /\ ~results[n][1] =>
              results[n][2] \in {AlreadyExists, TimeoutMsg(n), GitNotFoundMsg, OSErrorMsg}
                                   \cup {FailedMsg(n, e) : e \in Stderrs}

C24_Witness ==
    /\ pc = "returned"
    /\ \E n, k, l \in DOMAIN results :
          /\ results[n] = <<TRUE, None>>
          /\ results[k] = <<FALSE, AlreadyExists>>
          /\ results[l] = <<FALSE, OSErrorMsg>>

\* C27: the skip test precedes the dry-run test: with dry_run set and the
\* target path already present, clone_repository returns
\* (name, false, "Already exists"), not a simulated success, and calls no
\* clone tool.
C27_SkipBeforeDryRun ==
    \A i \in Tasks :
        (dry_run /\ Finished(i) /\ existed[i] = "yes") =>
            /\ fut[i] = Ret(repos[i], FALSE, AlreadyExists)
            /\ gitCalls[i] = 0

C27_Witness ==
    /\ dry_run /\ pc = "returned" /\ DistinctNames
    /\ \E i, j \in Tasks :
          /\ existed[i] = "yes" /\ results[repos[i]] = <<FALSE, AlreadyExists>>
          /\ existed[j] = "no" /\ results[repos[j]] = <<TRUE, None>>

\* C28: nothing removes the target a timed-out clone left behind (fs0 of the
\* subsequent batch still holds it), so in a subsequent batch over the same
\* descriptors the repository whose clone timed out is reported as
\* (false, "Already exists") and the clone tool is never invoked for it
\* again, although its clone never completed.
C28_TimedOutTargetSkippedOnRerun ==
    /\ \A n \in Names : fs0[2][n] # "absent" => leaf[n] # "absent"
    /\ history # << >> =>
          \A i \in Tasks :
              (history[1][i] = "timeout" /\ fs0[2][repos[i]] # "absent") =>
                  /\ leaf[repos[i]] # "absent"
                  /\ gitCalls[i] = 0
                  /\ Finished(i) => fut[i] = Ret(repos[i], FALSE, AlreadyExists)
                  /\ pc = "returned" => results[repos[i]] = <<FALSE, AlreadyExists>>
                  /\ pc # "raised"

C28_Witness ==
    /\ history # << >> /\ pc = "returned" /\ DistinctNames /\ ~dry_run
    /\ \E i \in Tasks :
          /\ history[1][i] = "timeout"
          /\ fs0[2][repos[i]] = "dir"
          /\ results[repos[i]] = <<FALSE, AlreadyExists>>
          /\ gitCalls[i] = 0

\* C29: clone_repository never creates the leaf itself.  Its skip and
\* dry-run returns create nothing; the step that invokes the clone tool
\* creates at most the parent base_dir/org_name (and ancestors), not the
\* leaf; a leaf comes into existence only where the clone tool wrote it (a
\* clone that succeeded or was killed at the timeout).
C29_OnlyParentCreated ==
    [][/\ \A i \in Tasks :
             /\ (st[i] = "running" /\ st'[i] # "running") =>
                    <<orgDir', leaf'>> = <<orgDir, leaf>>
             /\ (st[i] = "spawn" /\ st'[i] # "spawn") =>
                    (leaf' = leaf /\ orgDir' /\ gitCalls'[i] = gitCalls[i] + 1)
       /\ leaf' # leaf =>
             \E i \in Tasks :
                 /\ st[i] = "git" /\ st'[i] = "done"
                 /\ toolRes'[i] \in {"ok", "timeout"}
                 /\ leaf[repos[i]] = "absent"
                 /\ leaf' = [leaf EXCEPT ![repos[i]] = "dir"]]_vars

C29_Witness ==
    /\ pc = "returned" /\ ~dry_run /\ DistinctNames /\ history = << >>
    /\ \E i, j, k \in Tasks :
          /\ existed[i] = "yes" /\ gitCalls[i] = 0 /\ leaf[repos[i]] = fs0[2][repos[i]]
          /\ toolRes[j] = "ok" /\ fs0[2][repos[j]] = "absent" /\ leaf[repos[j]] = "dir"
          /\ toolRes[k] = "nonzero" /\ gitCalls[k] = 1 /\ leaf[repos[k]] = "absent"

\* C30: in parallel mode a progress entry completed/total is logged after
\* every task completion, whether the task returned or raised: the entries
\* logged so far are 1/n, 2/n, ..., completed/n, hence exactly n entries
\* with the values 1..n in that order when the batch returns.
C30_ProgressPerCompletion ==
    parallel =>
        /\ progress = [k \in 1..completed |-> <<k, Len(repos)>>]
        /\ pc = "returned" => Len(progress) = Len(repos)

\* the concatenation of the bodies of the first k responses
RECURSIVE AllPages(_)
AllPages(k) ==
    IF k = 0 THEN << >> ELSE AllPages(k - 1) \o PageItems(k, responses[k])

\* a 200 response with a parsable body
OkPage(r) == r.kind = "http" /\ r.status = 200 /\ r.json

\* C25: list_org_repositories requests the pages 1, 2, 3, ... in increasing
\* order, each at most once; it goes on to the next page exactly when the
\* current response is non-empty and carries a rel="next" link, stops at the
\* first page that is empty or has no next link, and returns the
\* repositories of all pages concatenated in page order and in within-page
\* order.
C25_PagesInOrder ==
    /\ requested = [k \in 1..Len(requested) |-> k]
    /\ Len(responses) = Len(requested)
    /\ \A k \in 1..(Len(responses) - 1) :
          OkPage(responses[k]) /\ responses[k].n > 0 /\ responses[k].next
    /\ (lpc = "loop" /\ responses # << >>) =>
          LET l == responses[Len(responses)]
          IN  /\ OkPage(l) /\ l.n > 0 /\ l.next
              /\ page = Len(responses) + 1
              /\ repositories = AllPages(Len(responses))
    /\ lpc = "returned" =>
          LET l == responses[Len(responses)]
          IN  /\ OkPage(l) /\ (l.n = 0 \/ ~l.next)
              /\ listReturn = <<AllPages(Len(responses))>>
    /\ lpc # "returned" => listReturn = << >>

C25_Witness ==
    /\ lpc = "returned" /\ Len(responses) = 3
    /\ responses[3].n = 0 /\ responses[3].next
    /\ listReturn = << <<(<<1, 1>>), (<<1, 2>>), (<<2, 1>>)>> >>

\* C26: a failing request ends list_org_repositories with a distinguishable
\* error, on whatever page it happens: 404 raises OrganizationNotFoundError,
\* 403 with a text mentioning a rate limit raises RateLimitError, any other
\* non-200 status, a network failure or an unparsable body raises
\* GitHubAPIError; nothing is returned then, the repositories accumulated
\* from earlier pages are discarded.
C26_ListingErrorKinds ==
    /\ lpc = "raised" =>
          LET l == responses[Len(responses)]
          IN  /\ listReturn = << >>
              /\ ~OkPage(l)
              /\ listErr = "OrganizationNotFoundError" <=>
                     (l.kind = "http" /\ l.status = 404)
              /\ listErr = "RateLimitError" <=>
                     (l.kind = "http" /\ l.status = 403 /\ l.rateLimitText)
              /\ listErr = "GitHubAPIError" <=>
                     \/ l.kind = "network"
                     \/ l.status = 403 /\ ~l.rateLimitText
                     \/ l.status \notin {200, 403, 404}
                     \/ l.status = 200 /\ ~l.json
              /\ listErr \in ListingErrors
    /\ (responses # << >> /\ ~OkPage(responses[Len(responses)])) => lpc = "raised"
    /\ lpc # "raised" => listErr = "none"

C26_Witness ==
    /\ lpc = "raised" /\ listErr = "RateLimitError" /\ Len(responses) = 3
    /\ Len(repositories) >= 2 /\ listReturn = << >>

\* C31: in parallel mode the result mapping is written only by the thread
\* that runs the as_completed loop: every change of it is one iteration of
\* that loop recording the outcome of one completed task, no step of a
\* worker changes it, and (distinct names) no update is lost: the mapping
\* has one entry per collected task.
C31_OnlyCollectorWrites ==
    [][/\ (parallel /\ pc # "returned" /\ results' # results) =>
             \E i \in Tasks :
                 /\ pc = "collect" /\ st[i] = "done"
                 /\ st' = [st EXCEPT ![i] = "collected"]
                 /\ fut' = fut
                 /\ results' = Put(results, repos[i], OutcomeOf(i))
                 /\ completed' = completed + 1
       /\ (parallel' /\ DistinctNames) =>
             /\ Cardinality(DOMAIN results') = completed'
             /\ \A i \in Tasks :
                   repos[i] \in DOMAIN results' <=> st'[i] = "collected"]_vars

C31_Witness ==
    /\ parallel /\ DistinctNames /\ pc = "collect" /\ max_workers = 2
    /\ \E i, j, k \in Tasks :
          /\ st[i] = "collected" /\ results[repos[i]] = <<TRUE, None>>
          /\ st[j] = "git" /\ st[k] = "done"
          /\ DOMAIN results = {repos[i]}

TaskRank(s) ==
    CASE s = "pending"   -> 6
      [] s = "queued"    -> 5
      [] s = "running"   -> 4
      [] s = "spawn"     -> 3
      [] s = "git"       -> 2
      [] s = "done"      -> 1
      [] OTHER           -> 0

PcRank(p) ==
    CASE p = "start"                       -> 3
      [] p \in {"submit", "seq", "collect"} -> 2
      [] p = "summary"                     -> 1
      [] OTHER                             -> 0

\* a step that moves the call or one of its tasks forward and nothing back
Closer ==
    /\ PcRank(pc') <= PcRank(pc)
    /\ \A i \in Tasks : TaskRank(st'[i]) <= TaskRank(st[i])
    /\ \/ PcRank(pc') < PcRank(pc)
       \/ \E i \in Tasks : TaskRank(st'[i]) < TaskRank(st[i])

\* C33: a batch always terminates and returns only when complete.  As long
\* as the call has neither returned nor raised, some step of it can be taken
\* (the end of a started clone-tool invocation included) and every step
\* moves the call or one task strictly forward through finitely many
\* positions and nothing back, so it ends after finitely many steps; it
\* raises only when an invocation could not be started at all; it reaches
\* the tally and returns only when every task has completed and its outcome
\* has been collected, with no task queued or running.
C33_BatchTerminates ==
    /\ [](pc \notin {"returned", "raised"} => ENABLED Next)
    /\ [][pc # "returned" => Closer]_vars
    /\ [](pc = "raised" =>
             \E i \in Tasks : toolRes[i] \in {"notfound", "oserror"})
    /\ [](pc \in {"summary", "returned"} =>
             /\ \A i \in Tasks : st[i] = "collected"
             /\ queue = << >> /\ Running = {}
             /\ parallel /\ repos # << >> => completed = Len(repos))
    /\ [](tally # << >> => pc = "returned")

C33_Witness ==
    /\ pc = "returned" /\ parallel /\ Len(repos) = 3 /\ max_workers = 2
    /\ tally # << >> /\ completed = 3 /\ PcRank(pc) = 0
    /\ \E i, j \in Tasks : toolRes[i] = "timeout" /\ toolRes[j] = "ok"

\* C34: for the same descriptors (distinct names), the same initial
\* filesystem and the same ordinary tool behaviour per item (success,
\* non-zero exit, timeout; nothing raised), the returned mapping is the same
\* in sequential and in parallel mode, for every max_workers and every
\* completion order: it has one entry per input name, and each entry is the
\* single outcome fixed by that item's own inputs, in which neither the
\* mode, nor the pool size, nor the order of completion occurs.
C34_ModesAgree ==
    (/\ pc = "returned" /\ DistinctNames
     /\ \A i \in Tasks : toolRes[i] \in {"none", "ok", "nonzero", "timeout"}) =>
        /\ DOMAIN results = InputNames
        /\ \A j \in Tasks :
              /\ Cardinality(OwnOutcomes(j)) = 1
              /\ results[repos[j]] \in OwnOutcomes(j)

C34_Witness ==
    /\ pc = "returned" /\ parallel /\ max_workers = 2 /\ ~dry_run
    /\ history = << >> /\ repos = Prefix(3)
    /\ toolRes = <<"timeout", "nonzero", "ok">>
    /\ results["repoA"] = <<FALSE, TimeoutMsg("repoA")>>
    /\ results["repoC"] = <<TRUE, None>>

\* C35: the key set of the mapping is at every moment, hence in any mapping
\* returned, a subset of the input descriptor names: no outcome is recorded
\* under a name that is not one of the inputs, in either mode, also when
\* tasks raise.
C35_KeysAmongInputs ==
    /\ DOMAIN results \subseteq InputNames
    /\ Unbound \notin DOMAIN results

C35_Witness ==
    /\ pc = "returned" /\ ~parallel /\ DistinctNames /\ Len(repos) = 3
    /\ \E i \in Tasks : fut[i].kind = "OSError"
    /\ DOMAIN results # InputNames /\ DOMAIN results # {}

\* C36: a missing clone tool is never reported as overall success: whenever
\* main has ended after a batch in which subprocess.run found no git (for
\* every descriptor it was called for, or for at least one of descriptors
\* with distinct names), which takes a non-dry-run batch with a descriptor
\* that was not skipped, its exit status is 1, in both modes: either the
\* error escaped clone_all_repositories or the returned mapping holds a
\* failed outcome.
C36_MissingToolNeverSuccess ==
    (/\ mainpc = "exited"
     /\ \E i \in Tasks : toolRes[i] = "notfound"
     /\ DistinctNames \/ \A i \in Tasks : toolRes[i] \in {"none", "notfound"}) =>
        /\ exitStatus = 1
        /\ ~dry_run /\ \E i \in Tasks : existed[i] = "no"
        /\ \/ pc = "raised" /\ mainErr = raised /\ raised # "none"
           \/ pc = "returned" /\ \E n \in DOMAIN results : ~results[n][1]

C36_Witness ==
    /\ mainpc = "exited" /\ exitStatus = 1 /\ pc = "returned" /\ parallel
    /\ Len(repos) >= 2
    /\ \A i \in Tasks : toolRes[i] = "notfound"
    /\ \A n \in DOMAIN results : results[n] = <<FALSE, GitNotFoundMsg>>

\* a response after which the loop does not go on: an error, an empty page
\* or a page without rel="next"
Stopping(r) == ~OkPage(r) \/ r.n = 0 \/ ~r.next

\* C37: the pagination loop terminates.  While the call is in its loop the
\* next request can always be made (up to the page bound of the model), each
\* iteration requests the current page and either ends the call, when the
\* response is an error, an empty page or a page without a next link, or
\* adds exactly one to page; so the call returns or raises at the first such
\* response, after requesting exactly that many pages, the requested page
\* numbers increase strictly and no page is requested twice.
C37_PaginationTerminates ==
    /\ []((lpc = "loop" /\ page <= MaxPages) => ENABLED FetchPage)
    /\ [][lpc = "loop" =>
             /\ requested' = Append(requested, page)
             /\ Len(responses') = Len(responses) + 1
             /\ IF Stopping(responses'[Len(responses')])
                THEN lpc' \in {"returned", "raised"} /\ page' = page
                ELSE lpc' = "loop" /\ page' = page + 1]_vars
    /\ [](\A a, b \in 1..Len(requested) : a < b => requested[a] < requested[b])
    /\ [](lpc \in {"returned", "raised"} =>
             /\ Len(requested) = Len(responses)
             /\ page = Len(requested)
             /\ Stopping(responses[Len(responses)])
             /\ \A k \in 1..(Len(responses) - 1) : ~Stopping(responses[k]))

C37_Witness ==
    /\ lpc = "raised" /\ requested = <<1, 2, 3>> /\ page = 3
    /\ responses[3].kind = "network"
    /\ ~Stopping(responses[1]) /\ ~Stopping(responses[2])

====
